---- MODULE Spec2Model ----
(***************************************************************************)
(* Coordinate-indexed attribute store (domasles/vector).                   *)
(*                                                                         *)
(* CentralAxis      src/src/vector_datalib/domain/coordinates/             *)
(*                  central_axis.py                                        *)
(* VectorDB         src/src/vector_db/application/main.py                  *)
(* VectorFileStorage src/src/vector_datalib/infrastructure/storage/        *)
(*                  file_storage.py                                        *)
(* facade VectorDB  src/src/vector_datalib/application/main.py             *)
(*                                                                         *)
(* DimensionalSpace and CoordinateMapping are imported by VectorDB but     *)
(* their files are not part of the sources at hand; they are modelled      *)
(* from sections 4.2 and 4.3 of the specification.                         *)
(*                                                                         *)
(* Python values are encoded as strings: "a" is the text 'a', "i1" the     *)
(* integer 1, "s1" the text '1', None is Python's None.  A position or a   *)
(* coordinate that may be None is a sequence of length at most one.        *)
(***************************************************************************)
EXTENDS Integers, Sequences, FiniteSets, TLC

\* ------------------------------------------------------------------ bounds
\* slots of a CentralAxis used on its own
MaxPoints == 3
\* slots of the axis of a VectorDB
MaxRows == 2
\* VectorDB calls in one run
MaxOps == 3
\* value ids per dimension
MaxIds == 2
\* capacity of the lookup cache (the constructor's cache_size; 1000 by default)
cache_size == 2
\* threads calling one facade instance, and how deep their calls nest
NumThreads == 2
MaxDepth == 2
\* storage calls that can be in progress at once
NumProcs == 2
\* VectorFileStorage instances on the one database path
NumInstances == 2

\* ------------------------------------------------------------ value domains
None == "None"
Identities == {"a", "i1", "s1"}
IdentityArgs == Identities \cup {None}
Dimensions == {"d", "e"}
Values == {"x", "y"}
NoPosition == << >>
PositionArgs == {NoPosition} \cup {<<k>> : k \in -1 .. MaxPoints + 1}

VARIABLES
    vector_points,       \* CentralAxis.vector_points: slots, None = tombstone
    coordinate_map,      \* CentralAxis.coordinate_map: identity -> coordinate
    dimensional_spaces,  \* VectorDB.dimensional_spaces: name -> interner
    coordinate_mappings, \* VectorDB.coordinate_mappings: name -> (coord -> id)
    cache,               \* VectorDB._cache: <<key, value>> pairs, oldest first
    disk,                \* content of the database file
    procs,               \* storage calls in progress: position in save/load
    file_lock,           \* holder of <path>.lock (FileLock), 0 = free
    async_lock,          \* holder of each instance's asyncio.Lock, 0 = free
    metadata,            \* VectorFileStorage.metadata of the VectorDB's storage
    rlock,               \* the facade's threading.RLock: owner (0 = free), count
    threads,             \* per thread: the facade operations it is inside of
                         \* (outermost first) and its position in the innermost
    facade,              \* the facade's __initialized flag, and how often it
                         \* was entered, has loaded and has tried to save
    workers,             \* per executor thread: its position in the insert it
                         \* runs for an async_insert, and that call's locals
    last,                \* the last call: operation, arguments, result
    ops,                 \* the number of VectorDB calls made so far
    pure                 \* the identities added so far, in call order, while
                         \* every call was an add of a new identity without
                         \* a position

vars == <<vector_points, coordinate_map, dimensional_spaces,
          coordinate_mappings, cache, disk, procs, file_lock, async_lock,
          metadata, rlock, threads, facade, workers, last, ops, pure>>

axisVars == <<vector_points, coordinate_map>>
dbVars == <<dimensional_spaces, coordinate_mappings, cache>>
facadeVars == <<rlock, threads, facade, workers>>
storeVars == <<disk, procs, file_lock, async_lock, metadata, facadeVars>>

\* ------------------------------------------------------------------ helpers
Max(a, b) == IF a > b THEN a ELSE b
Min(a, b) == IF a < b THEN a ELSE b
Range(s) == {s[i] : i \in 1 .. Len(s)}
EmptyMap == [k \in {} |-> 0]
NotPure == [ok |-> FALSE, order |-> << >>]
IdleCall == [pc |-> "idle", op |-> "none", mode |-> "none", inst |-> 0,
             ret |-> "none", seen |-> << >>]
IdleWorker == [pc |-> "idle", value |-> None, coordinate |-> 0, fresh |-> FALSE]

\* ---------------------------------------------------------------- CentralAxis
\* list.insert(position, value): negative positions count from the end and
\* every position is clamped into 0 .. len.
InsertIndex(points, k) ==
    IF k < 0 THEN Max(k + Len(points), 0) ELSE Min(k, Len(points))

ListInsert(points, k, value) ==
    LET i == InsertIndex(points, k)
    IN SubSeq(points, 1, i) \o <<value>> \o SubSeq(points, i + 1, Len(points))

\* coordinate_map.clear(); for idx, point in enumerate(vector_points):
\*     coordinate_map[point] = idx        (a later slot overwrites an earlier)
RebuildIndex(points) ==
    [p \in Range(points) |->
        CHOOSE i \in 0 .. Len(points) - 1 :
            /\ points[i + 1] = p
            /\ \A j \in 0 .. Len(points) - 1 : points[j + 1] = p => j <= i]

\* if value in self.coordinate_map: return self.coordinate_map[value]
IsRegistered_appendOnly(map, value, position) ==
    value \in DOMAIN map /\ position = NoPosition

IsRegistered(map, value, position) == value \in DOMAIN map

\* size(): the number of slots that are not None
size(points) == Cardinality({i \in 1 .. Len(points) : points[i] # None})

\* coordinate = len(self.vector_points)
AppendCoordinate_afterAppend(points) == Len(points) + 1

AppendCoordinate_liveCount(points) == size(points)

AppendCoordinate(points) == Len(points)

\* add_vector_point(value, position) -> the axis afterwards and the result
add_vector_point(points, map, value, position) ==
    IF IsRegistered(map, value, position)
    THEN [points |-> points, map |-> map, ret |-> map[value]]
    ELSE IF position = NoPosition
    THEN [points |-> Append(points, value),
          map |-> [p \in DOMAIN map \cup {value} |->
                      IF p = value THEN AppendCoordinate(points) ELSE map[p]],
          ret |-> AppendCoordinate(points)]
    ELSE LET inserted == ListInsert(points, position[1], value)
         IN [points |-> inserted,
             map |-> RebuildIndex(inserted),
             ret |-> position[1]]

\* get_coordinate(value): <<c>> or << >> for None
get_coordinate(map, value) ==
    IF value \in DOMAIN map THEN <<map[value]>> ELSE << >>

\* get_all_points(): the slots that are not None, in coordinate order
get_all_points(points) == SelectSeq(points, LAMBDA p : p # None)

\* the slot deleted from the list and the index rebuilt
remove_vector_point_compacting(points, map, value) ==
    IF value \notin DOMAIN map
    THEN [points |-> points, map |-> map, ret |-> FALSE]
    ELSE LET kept == SubSeq(points, 1, map[value])
                         \o SubSeq(points, map[value] + 2, Len(points))
         IN [points |-> kept, map |-> RebuildIndex(kept), ret |-> TRUE]

\* remove_vector_point(value) -> the axis afterwards and the result
remove_vector_point(points, map, value) ==
    IF value \notin DOMAIN map
    THEN [points |-> points, map |-> map, ret |-> FALSE]
    ELSE [points |-> [points EXCEPT ![map[value] + 1] = None],
          map |-> [p \in DOMAIN map \ {value} |-> map[p]],
          ret |-> TRUE]

\* ------------------------------------------- DimensionalSpace (section 4.2)
NewSpace == [value_domain |-> EmptyMap, value_to_id |-> EmptyMap, next_id |-> 1]

\* add_value(value) -> the interner afterwards and the id
add_value(space, value) ==
    IF value \in DOMAIN space.value_to_id
    THEN [space |-> space, id |-> space.value_to_id[value]]
    ELSE [space |->
             [value_domain |->
                 [i \in DOMAIN space.value_domain \cup {space.next_id} |->
                     IF i = space.next_id THEN value ELSE space.value_domain[i]],
              value_to_id |->
                 [w \in DOMAIN space.value_to_id \cup {value} |->
                     IF w = value THEN space.next_id ELSE space.value_to_id[w]],
              next_id |-> space.next_id + 1],
          id |-> space.next_id]

\* get_value(id): the value, None if the id is not in the forward table
get_value(space, id) ==
    IF id \in DOMAIN space.value_domain THEN space.value_domain[id] ELSE None

\* update_value(old, new): the forward entry of old's id is rewritten and the
\* reverse entry moves from old to new; an id new already owned is not merged
update_value(space, old, new) ==
    IF old \notin DOMAIN space.value_to_id
    THEN [space |-> space, ret |-> FALSE]
    ELSE LET id == space.value_to_id[old]
         IN [space |->
                [value_domain |-> [space.value_domain EXCEPT ![id] = new],
                 value_to_id |->
                    [w \in (DOMAIN space.value_to_id \ {old}) \cup {new} |->
                        IF w = new THEN id ELSE space.value_to_id[w]],
                 next_id |-> space.next_id],
             ret |-> TRUE]

\* ------------------------------------------ CoordinateMapping (section 4.3)
\* set_mapping(coordinate, id): overwrite
set_mapping(mapping, coordinate, id) ==
    [c \in DOMAIN mapping \cup {coordinate} |->
        IF c = coordinate THEN id ELSE mapping[c]]

\* get_mapping(coordinate): <<id>> or << >> for None
get_mapping(mapping, coordinate) ==
    IF coordinate \in DOMAIN mapping THEN <<mapping[coordinate]>> ELSE << >>

\* shift_coordinates(from_position, amount): every key >= from_position is
\* removed and reinserted at key + amount
shift_coordinates(mapping, from_position, amount) ==
    [c \in {k \in DOMAIN mapping : k < from_position}
           \cup {k + amount : k \in {j \in DOMAIN mapping : j >= from_position}} |->
        IF c - amount \in DOMAIN mapping /\ c - amount >= from_position
        THEN mapping[c - amount]
        ELSE mapping[c]]

\* ------------------------------------------------------------------ VectorDB
\* str(vector_value) as the f-string of the cache key renders it
Str(value) ==
    CASE value = "i1" -> "1"
      [] value = "s1" -> "1"
      [] OTHER -> value

\* cache_key = f"{vector_value}:{dimension_name}"
CacheKey(value, dimension) == Str(value) \o ":" \o dimension

CacheKeys(c) == {c[i][1] : i \in 1 .. Len(c)}
CacheGet(c, key) == c[CHOOSE i \in 1 .. Len(c) : c[i][1] = key][2]

\* self._cache.pop(cache_key, None)
CachePop(c, key) == SelectSeq(c, LAMBDA e : e[1] # key)

\* _add_to_cache(key, value): the first (oldest) entry goes when at capacity
add_to_cache(c, key, value) ==
    LET kept == IF Len(c) >= cache_size THEN Tail(c) ELSE c
    IN Append(CachePop(kept, key), <<key, value>>)

\* add_dimension(name): a new interner and a new mapping, if not there yet
add_dimension(db, name) ==
    IF name \in DOMAIN db.spaces
    THEN db
    ELSE [db EXCEPT
            !.spaces = [n \in DOMAIN db.spaces \cup {name} |->
                           IF n = name THEN NewSpace ELSE db.spaces[n]],
            !.mappings = [n \in DOMAIN db.mappings \cup {name} |->
                             IF n = name THEN EmptyMap ELSE db.mappings[n]]]

\* the axis -> mapping -> interner chain of lookup, without the cache
Resolve(map, spaces, mappings, value, dimension) ==
    IF value \notin DOMAIN map THEN None
    ELSE IF dimension \notin DOMAIN mappings THEN None
    ELSE IF map[value] \notin DOMAIN mappings[dimension] THEN None
    ELSE IF dimension \notin DOMAIN spaces THEN None
    ELSE get_value(spaces[dimension], mappings[dimension][map[value]])

\* lookup(vector_value, dimension_name): the value returned
lookup(c, map, spaces, mappings, value, dimension) ==
    IF CacheKey(value, dimension) \in CacheKeys(c)
    THEN CacheGet(c, CacheKey(value, dimension))
    ELSE Resolve(map, spaces, mappings, value, dimension)

\* a hit that leaves the entry where it is
lookup_cache_hitKeepsPlace(c, map, spaces, mappings, value, dimension) ==
    LET key == CacheKey(value, dimension)
        result == Resolve(map, spaces, mappings, value, dimension)
    IN IF key \in CacheKeys(c) THEN c
       ELSE IF result # None THEN add_to_cache(c, key, result) ELSE c

\* lookup(vector_value, dimension_name): the cache afterwards
lookup_cache(c, map, spaces, mappings, value, dimension) ==
    LET key == CacheKey(value, dimension)
        result == Resolve(map, spaces, mappings, value, dimension)
    IN IF key \in CacheKeys(c)
       THEN Append(CachePop(c, key), <<key, CacheGet(c, key)>>)
       ELSE IF result # None THEN add_to_cache(c, key, result) ELSE c

\* if position is not None and position < coordinate
ShiftNeeded(position, coordinate) ==
    position # NoPosition /\ position[1] < coordinate

\* _shift_mappings_after_insertion(from_position, shift_amount)
shift_mappings_after_insertion(mappings, from_position, shift_amount) ==
    [n \in DOMAIN mappings |->
        shift_coordinates(mappings[n], from_position, shift_amount)]

\* insert(vector_value, attributes, position) on db = [points, map, spaces,
\* mappings] -> the database afterwards and the coordinate returned
insert(db, value, attributes, position) ==
    LET axis == add_vector_point(db.points, db.map, value, position)
        coordinate == axis.ret
        names == DOMAIN db.spaces \cup DOMAIN attributes
        before(n) == IF n \in DOMAIN db.spaces THEN db.spaces[n] ELSE NewSpace
        bound(n) == IF n \in DOMAIN db.mappings THEN db.mappings[n] ELSE EmptyMap
        spaces == [n \in names |->
                     IF n \in DOMAIN attributes
                     THEN add_value(before(n), attributes[n]).space
                     ELSE db.spaces[n]]
        mappings == [n \in DOMAIN db.mappings \cup DOMAIN attributes |->
                       IF n \in DOMAIN attributes
                       THEN set_mapping(bound(n), coordinate,
                                        add_value(before(n), attributes[n]).id)
                       ELSE db.mappings[n]]
    IN [points |-> axis.points,
        map |-> axis.map,
        spaces |-> spaces,
        mappings |-> IF ShiftNeeded(position, coordinate)
                     THEN shift_mappings_after_insertion(mappings, position[1], 1)
                     ELSE mappings,
        ret |-> coordinate]

\* old and new handed to the interner in the other order
update_dimension_value_swapped(spaces, dimension, old, new) ==
    IF dimension \notin DOMAIN spaces
    THEN [spaces |-> spaces, ret |-> FALSE]
    ELSE [spaces |-> [spaces EXCEPT
                         ![dimension] = update_value(spaces[dimension], new, old).space],
          ret |-> update_value(spaces[dimension], new, old).ret]

\* every interner updated, not only the one of the dimension
update_dimension_value_everySpace(spaces, dimension, old, new) ==
    IF dimension \notin DOMAIN spaces
    THEN [spaces |-> spaces, ret |-> FALSE]
    ELSE [spaces |-> [n \in DOMAIN spaces |-> update_value(spaces[n], old, new).space],
          ret |-> update_value(spaces[dimension], old, new).ret]

\* update_dimension_value(dimension_name, old_value, new_value)
update_dimension_value(spaces, dimension, old, new) ==
    IF dimension \notin DOMAIN spaces
    THEN [spaces |-> spaces, ret |-> FALSE]
    ELSE [spaces |-> [spaces EXCEPT
                         ![dimension] = update_value(spaces[dimension], old, new).space],
          ret |-> update_value(spaces[dimension], old, new).ret]

\* a text of more than 10000 characters
Oversized == "oversized"

\* _validate_input(value, param_name): None, blank texts and texts of more
\* than 10000 characters are rejected
validate_input(value) ==
    value # None /\ value # "" /\ value # " " /\ value # Oversized

\* the dimension ensured and the value interned before the coordinate is
\* looked at
update_dimensionFirst(db, c, value, dimension, new_value) ==
    IF ~(validate_input(value) /\ validate_input(dimension) /\ validate_input(new_value))
    THEN [db |-> db, cache |-> c, ret |-> FALSE]
    ELSE LET with == add_dimension(db, dimension)
             added == add_value(with.spaces[dimension], new_value)
         IN IF value \notin DOMAIN db.map
            THEN [db |-> [with EXCEPT !.spaces[dimension] = added.space],
                  cache |-> CachePop(c, CacheKey(value, dimension)),
                  ret |-> FALSE]
            ELSE [db |-> [with EXCEPT
                            !.spaces[dimension] = added.space,
                            !.mappings[dimension] =
                                set_mapping(with.mappings[dimension], db.map[value],
                                            added.id)],
                  cache |-> CachePop(c, CacheKey(value, dimension)),
                  ret |-> TRUE]

\* the value of the id the point is bound to rewritten in the interner, the
\* mapping left alone
update_rewritesBoundValue(db, c, value, dimension, new_value) ==
    IF ~(validate_input(value) /\ validate_input(dimension) /\ validate_input(new_value))
    THEN [db |-> db, cache |-> c, ret |-> FALSE]
    ELSE IF value \notin DOMAIN db.map
    THEN [db |-> db, cache |-> CachePop(c, CacheKey(value, dimension)), ret |-> FALSE]
    ELSE LET with == add_dimension(db, dimension)
             added == add_value(with.spaces[dimension], new_value)
             bound == get_mapping(with.mappings[dimension], db.map[value])
         IN [db |-> IF bound = << >>
                    THEN [with EXCEPT
                            !.spaces[dimension] = added.space,
                            !.mappings[dimension] =
                                set_mapping(with.mappings[dimension], db.map[value],
                                            added.id)]
                    ELSE [with EXCEPT
                            !.spaces[dimension].value_domain[bound[1]] = new_value],
             cache |-> CachePop(c, CacheKey(value, dimension)),
             ret |-> TRUE]

\* update(vector_value, dimension_name, new_value) -> the database and the
\* cache afterwards and the result
update(db, c, value, dimension, new_value) ==
    IF ~(validate_input(value) /\ validate_input(dimension) /\ validate_input(new_value))
    THEN [db |-> db, cache |-> c, ret |-> FALSE]
    ELSE IF value \notin DOMAIN db.map
    THEN [db |-> db, cache |-> CachePop(c, CacheKey(value, dimension)), ret |-> FALSE]
    ELSE LET with == add_dimension(db, dimension)
             added == add_value(with.spaces[dimension], new_value)
         IN [db |-> [with EXCEPT
                       !.spaces[dimension] = added.space,
                       !.mappings[dimension] =
                           set_mapping(with.mappings[dimension], db.map[value], added.id)],
             cache |-> CachePop(c, CacheKey(value, dimension)),
             ret |-> TRUE]

\* ------------------------------------------------------- VectorFileStorage
\* list(coord_map.items()): the index as a sequence of (identity, coordinate)
\* pairs, here in coordinate order
RECURSIVE Items(_)
Items(map) ==
    IF DOMAIN map = {} THEN << >>
    ELSE LET k == CHOOSE k \in DOMAIN map :
                     \A j \in DOMAIN map : map[k] <= map[j]
         IN <<<<k, map[k]>>>> \o Items([j \in DOMAIN map \ {k} |-> map[j]])

\* dict(coord_map_list): a later pair overwrites an earlier one
DictOf(pairs) ==
    [k \in {pairs[i][1] : i \in 1 .. Len(pairs)} |->
        pairs[CHOOSE i \in 1 .. Len(pairs) :
                 /\ pairs[i][1] = k
                 /\ \A j \in 1 .. Len(pairs) : pairs[j][1] = k => j <= i][2]]

\* _serialize_database(): the structure handed to the storage
serialize_database(db) ==
    [central_axis |-> [vector_points |-> db.points, coordinate_map |-> db.map],
     dimensional_spaces |-> db.spaces,
     coordinate_mappings |-> db.mappings]

\* the metadata of a new VectorFileStorage; a time stamp is None or "t"
NewMetadata == [created_at |-> None, last_modified |-> None,
                total_vector_points |-> 0, total_dimensions |-> 0]

\* update_metadata(...) of save() and the time stamps of save_database()
stamp_metadata(meta, db) ==
    [created_at |-> "t", last_modified |-> "t",
     total_vector_points |-> size(db.points),
     total_dimensions |-> Cardinality(DOMAIN db.spaces)]

\* a file that cannot be decompressed or decoded
Undecodable == <<[undecodable |-> TRUE]>>
IsUndecodable(file) == "database" \notin DOMAIN file[1]

\* the sections of a decoded payload that may lack the shape the restoring
\* code converts (a pair list with an entry that is no pair, a table with a
\* key that is no integer); file[1].malformed names those of a file
Sections == {"coordinate_map", "dimensional_spaces", "coordinate_mappings"}

\* save_database(database_data): the payload written to the file
save_database(data, meta) ==
    <<[metadata |-> meta, malformed |-> {},
       database |-> [data EXCEPT !.central_axis.coordinate_map =
                                     Items(data.central_axis.coordinate_map)]]>>

\* load_database(): the database block read from the file (<< >> when None
\* is returned) and the metadata of the storage afterwards
load_database(file, meta) ==
    IF file = << >> THEN [data |-> << >>, metadata |-> meta]
    ELSE IF IsUndecodable(file) THEN [data |-> << >>, metadata |-> meta]
    ELSE IF "coordinate_map" \in file[1].malformed
    THEN [data |-> << >>, metadata |-> file[1].metadata]
    ELSE [data |-> <<[file[1].database EXCEPT
                        !.central_axis.coordinate_map =
                            DictOf(file[1].database.central_axis.coordinate_map)]>>,
          metadata |-> file[1].metadata]

EmptyDb == [points |-> << >>, map |-> EmptyMap, spaces |-> EmptyMap,
            mappings |-> EmptyMap]

\* a new instance restored with the id counter at its default
load_into_new_counterDefault(file) ==
    LET loaded == load_database(file, NewMetadata)
    IN IF loaded.data = << >>
       THEN [points |-> << >>, map |-> EmptyMap, spaces |-> EmptyMap,
             mappings |-> EmptyMap, metadata |-> loaded.metadata, ok |-> FALSE]
       ELSE LET data == loaded.data[1]
            IN [points |-> data.central_axis.vector_points,
                map |-> data.central_axis.coordinate_map,
                spaces |-> [n \in DOMAIN data.dimensional_spaces |->
                              [data.dimensional_spaces[n] EXCEPT !.next_id = 1]],
                mappings |-> data.coordinate_mappings,
                metadata |-> loaded.metadata, ok |-> TRUE]

\* _load_database(): the structures of a new instance opened on the file;
\* the sections are restored in order until one raises, and ok tells whether
\* all of them were restored
load_into_new(file) ==
    LET loaded == load_database(file, NewMetadata)
        malformed == IF file = << >> \/ loaded.data = << >> THEN {}
                     ELSE file[1].malformed
    IN IF loaded.data = << >>
       THEN [points |-> << >>, map |-> EmptyMap, spaces |-> EmptyMap,
             mappings |-> EmptyMap, metadata |-> loaded.metadata, ok |-> FALSE]
       ELSE LET data == loaded.data[1]
                axis == data.central_axis
            IN IF "dimensional_spaces" \in malformed
               THEN [points |-> axis.vector_points, map |-> axis.coordinate_map,
                     spaces |-> EmptyMap, mappings |-> EmptyMap,
                     metadata |-> loaded.metadata, ok |-> FALSE]
               ELSE IF "coordinate_mappings" \in malformed
               THEN [points |-> axis.vector_points, map |-> axis.coordinate_map,
                     spaces |-> data.dimensional_spaces, mappings |-> EmptyMap,
                     metadata |-> loaded.metadata, ok |-> FALSE]
               ELSE [points |-> axis.vector_points, map |-> axis.coordinate_map,
                     spaces |-> data.dimensional_spaces,
                     mappings |-> data.coordinate_mappings,
                     metadata |-> loaded.metadata, ok |-> TRUE]

\* ------------------------------------------------------------- axis actions
InitAxis ==
    /\ vector_points = << >>
    /\ coordinate_map = EmptyMap

InitRest ==
    /\ dimensional_spaces = EmptyMap
    /\ coordinate_mappings = EmptyMap
    /\ cache = << >>
    /\ disk = << >>
    /\ procs = [p \in 1 .. NumProcs |-> IdleCall]
    /\ file_lock = 0
    /\ async_lock = [i \in 1 .. NumInstances |-> 0]
    /\ metadata = NewMetadata
    /\ rlock = [owner |-> 0, count |-> 0]
    /\ threads = [t \in 1 .. NumThreads |-> [pc |-> "idle", stack |-> << >>]]
    /\ facade = [initialized |-> FALSE, enters |-> 0, loads |-> 0,
                 save_attempts |-> 0]
    /\ workers = [t \in 1 .. NumThreads |-> IdleWorker]

Init ==
    /\ InitAxis
    /\ InitRest
    /\ last = [op |-> "init"]
    /\ ops = 0
    /\ pure = [ok |-> TRUE, order |-> << >>]

AxisAdd(value, position) ==
    LET r == add_vector_point(vector_points, coordinate_map, value, position)
    IN /\ Len(vector_points) < MaxPoints \/ value \in DOMAIN coordinate_map
       /\ vector_points' = r.points
       /\ coordinate_map' = r.map
       /\ last' = [op |-> "add", value |-> value, position |-> position,
                   ret |-> r.ret, fresh |-> value \notin DOMAIN coordinate_map]
       /\ pure' = IF /\ pure.ok
                      /\ position = NoPosition
                      /\ value \notin Range(pure.order)
                   THEN [ok |-> TRUE, order |-> Append(pure.order, value)]
                   ELSE NotPure
       /\ UNCHANGED <<dbVars, storeVars, ops>>

AxisRemove(value) ==
    LET r == remove_vector_point(vector_points, coordinate_map, value)
    IN /\ vector_points' = r.points
       /\ coordinate_map' = r.map
       /\ last' = [op |-> "remove", value |-> value, ret |-> r.ret]
       /\ pure' = NotPure
       /\ UNCHANGED <<dbVars, storeVars, ops>>

NextAxis ==
    \/ \E value \in IdentityArgs, position \in PositionArgs :
          AxisAdd(value, position)
    \/ \E value \in IdentityArgs : AxisRemove(value)

SpecAxis == Init /\ [][NextAxis]_vars

\* ---------------------------------------------------------- VectorDB actions
Db == [points |-> vector_points, map |-> coordinate_map,
       spaces |-> dimensional_spaces, mappings |-> coordinate_mappings]

RowIdentityArgs == {"a", "i1"}
AttributeArgs == UNION {[D -> Values] : D \in SUBSET Dimensions}
RowPositionArgs == {NoPosition} \cup {<<k>> : k \in -1 .. MaxRows}

\* one more call, within the budget of calls
Called == ops < MaxOps /\ ops' = ops + 1

MappingKeys(mappings) == UNION {DOMAIN mappings[n] : n \in DOMAIN mappings}

\* the bounds of the model: slots, value ids and mapping keys
WithinBounds(db) ==
    /\ Len(db.points) <= MaxRows
    /\ \A n \in DOMAIN db.spaces : db.spaces[n].next_id <= MaxIds + 1
    /\ \A k \in MappingKeys(db.mappings) : k <= MaxRows + 1

Insert(value, attributes, position) ==
    LET r == insert(Db, value, attributes, position)
    IN /\ Called
       /\ WithinBounds(r)
       /\ vector_points' = r.points
       /\ coordinate_map' = r.map
       /\ dimensional_spaces' = r.spaces
       /\ coordinate_mappings' = r.mappings
       /\ last' = [op |-> "insert", value |-> value, attributes |-> attributes,
                   position |-> position, ret |-> r.ret,
                   fresh |-> value \notin DOMAIN coordinate_map]
       /\ pure' = NotPure
       /\ UNCHANGED <<cache, storeVars>>

\* lookup(vector_value, dimension_name) without the count of calls
LookupCall(value, dimension) ==
    /\ cache' = lookup_cache(cache, coordinate_map, dimensional_spaces,
                             coordinate_mappings, value, dimension)
    /\ last' = [op |-> "lookup", value |-> value, dimension |-> dimension,
                ret |-> lookup(cache, coordinate_map, dimensional_spaces,
                               coordinate_mappings, value, dimension),
                hit |-> CacheKey(value, dimension) \in CacheKeys(cache)]
    /\ pure' = NotPure
    /\ UNCHANGED <<axisVars, dimensional_spaces, coordinate_mappings, storeVars>>

Lookup(value, dimension) ==
    /\ Called
    /\ LookupCall(value, dimension)

Update(value, dimension, new_value) ==
    LET r == update(Db, cache, value, dimension, new_value)
    IN /\ Called
       /\ WithinBounds(r.db)
       /\ dimensional_spaces' = r.db.spaces
       /\ coordinate_mappings' = r.db.mappings
       /\ cache' = r.cache
       /\ last' = [op |-> "update", value |-> value, dimension |-> dimension,
                   new_value |-> new_value, ret |-> r.ret]
       /\ pure' = NotPure
       /\ UNCHANGED <<axisVars, storeVars>>

UpdateDimensionValue(dimension, old, new) ==
    LET r == update_dimension_value(dimensional_spaces, dimension, old, new)
    IN /\ Called
       /\ dimensional_spaces' = r.spaces
       /\ last' = [op |-> "update_dimension_value", dimension |-> dimension,
                   old |-> old, new |-> new, ret |-> r.ret]
       /\ pure' = NotPure
       /\ UNCHANGED <<axisVars, coordinate_mappings, cache, storeVars>>

\* central_axis.remove_vector_point(value) on the database's axis
Remove(value) ==
    LET r == remove_vector_point(vector_points, coordinate_map, value)
    IN /\ Called
       /\ vector_points' = r.points
       /\ coordinate_map' = r.map
       /\ last' = [op |-> "remove", value |-> value, ret |-> r.ret]
       /\ pure' = NotPure
       /\ UNCHANGED <<dbVars, storeVars>>

\* save(): _serialize_database() written by storage.save_database()
Save ==
    /\ Called
    /\ metadata' = stamp_metadata(metadata, Db)
    /\ disk' = save_database(serialize_database(Db), metadata')
    /\ last' = [op |-> "save", ret |-> TRUE]
    /\ pure' = NotPure
    /\ UNCHANGED <<axisVars, dbVars, procs, file_lock, async_lock, facadeVars>>

\* VectorDB(database_path): a new instance on the same path, _load_database()
Open ==
    LET db == load_into_new(disk)
    IN /\ Called
       /\ vector_points' = db.points
       /\ coordinate_map' = db.map
       /\ dimensional_spaces' = db.spaces
       /\ coordinate_mappings' = db.mappings
       /\ cache' = << >>
       /\ metadata' = db.metadata
       /\ last' = [op |-> "open", ok |-> db.ok]
       /\ pure' = NotPure
       /\ UNCHANGED <<disk, procs, file_lock, async_lock, facadeVars>>

Next ==
    \/ \E value \in RowIdentityArgs, attributes \in AttributeArgs,
          position \in RowPositionArgs : Insert(value, attributes, position)
    \/ \E value \in RowIdentityArgs, dimension \in Dimensions :
          Lookup(value, dimension)
    \/ \E value \in RowIdentityArgs, dimension \in Dimensions,
          new_value \in Values \cup {None} : Update(value, dimension, new_value)
    \/ \E dimension \in Dimensions, old \in Values, new \in Values :
          UpdateDimensionValue(dimension, old, new)
    \/ \E value \in RowIdentityArgs : Remove(value)
    \/ Save
    \/ Open

Spec == Init /\ [][Next]_vars

\* ------------------------------------------------------------ axis claims
\* C3: starting from an empty axis, after N adds of pairwise distinct
\* identities without a position, the i-th added identity has coordinate
\* i-1, the coordinates are exactly 0 .. N-1 and no two identities share one.
C3_AppendsAreDense ==
    pure.ok =>
        LET N == Len(pure.order)
        IN /\ Len(vector_points) = N
           /\ DOMAIN coordinate_map = Range(pure.order)
           /\ \A i \in 1 .. N : coordinate_map[pure.order[i]] = i - 1
           /\ {coordinate_map[v] : v \in DOMAIN coordinate_map} = 0 .. N - 1
           /\ \A v, w \in DOMAIN coordinate_map :
                 coordinate_map[v] = coordinate_map[w] => v = w
           /\ last.op = "add" => last.ret = N - 1

C3_Witness ==
    /\ pure.ok
    /\ Len(pure.order) = 3
    /\ last.op = "add"
    /\ last.ret = 2

\* C4: add_vector_point for an identity that is already registered, with or
\* without a position, returns the existing coordinate and leaves the slot
\* sequence and the identity -> coordinate index unchanged.
C4_AddIsIdempotent ==
    [][(last'.op = "add" /\ last'.value \in DOMAIN coordinate_map) =>
          /\ last'.ret = coordinate_map[last'.value]
          /\ vector_points' = vector_points
          /\ coordinate_map' = coordinate_map]_vars

C4_Witness ==
    /\ last.op = "add"
    /\ ~last.fresh
    /\ last.position # NoPosition
    /\ Len(vector_points) >= 2
    /\ last.ret # last.position[1]

\* C5: after remove(identity) returns true, coordinate_of(identity) is
\* not-found, the identity is not in all_identities() and size() is exactly
\* one less than before; remove of an unregistered identity returns false
\* and changes nothing.
C5_RemoveContract ==
    [][last'.op = "remove" =>
          LET v == last'.value
          IN /\ v \notin DOMAIN coordinate_map => last'.ret = FALSE
             /\ last'.ret = FALSE =>
                   vector_points' = vector_points /\ coordinate_map' = coordinate_map
             /\ last'.ret = TRUE =>
                   /\ get_coordinate(coordinate_map', v) = << >>
                   /\ v \notin Range(get_all_points(vector_points'))
                   /\ size(vector_points') = size(vector_points) - 1]_vars

\* coordinate c is vacated: its slot is a tombstone and no identity has it
Vacated(points, map, c) ==
    /\ c \in 0 .. Len(points) - 1
    /\ points[c + 1] = None
    /\ \A x \in DOMAIN map : map[x] # c

Coordinates == 0 .. MaxPoints + 1

LookupNow(value, dimension) ==
    lookup(cache, coordinate_map, dimensional_spaces, coordinate_mappings,
           value, dimension)

ResolveNow(value, dimension) ==
    Resolve(coordinate_map, dimensional_spaces, coordinate_mappings,
            value, dimension)

ResolveNext(value, dimension) ==
    Resolve(coordinate_map', dimensional_spaces', coordinate_mappings',
            value, dimension)

\* C1: after any sequence of lookup, update and update_dimension_value calls,
\* lookup(identity, dimension) returns what axis -> mapping -> interner
\* resolves to at that moment; a value cached before a successful
\* update_dimension_value(dimension, old, new) is not returned afterwards.
C1_CacheNeverStale ==
    last.op \in {"lookup", "update", "update_dimension_value"} =>
        \A value \in RowIdentityArgs, dimension \in Dimensions :
            LookupNow(value, dimension) = ResolveNow(value, dimension)

\* C2: insert(identity, attributes, position = k) of a new identity moves, in
\* every dimension's mapping, every entry whose key was >= k to key + 1, so
\* every point that existed before resolves to the same value in every
\* dimension afterwards.
C2_PositionalInsertShifts ==
    [][(last'.op = "insert" /\ last'.fresh /\ last'.position # NoPosition) =>
          LET k == last'.position[1]
          IN /\ \A d \in DOMAIN coordinate_mappings :
                   \A c \in DOMAIN coordinate_mappings[d] :
                       (c >= k /\ d \notin DOMAIN last'.attributes) =>
                           /\ c + 1 \in DOMAIN coordinate_mappings'[d]
                           /\ coordinate_mappings'[d][c + 1] = coordinate_mappings[d][c]
             /\ \A w \in DOMAIN coordinate_map, d \in Dimensions :
                   ResolveNext(w, d) = ResolveNow(w, d)]_vars

\* C7: two inserts of different identities that supply an equal value for the
\* same dimension, with nothing in between, leave both points bound to the
\* same value-id in that dimension's mapping, and the interner holds the
\* value once.
C7_EqualValuesShareId ==
    [][(/\ last.op = "insert"
        /\ last'.op = "insert"
        /\ last.value # last'.value) =>
          \A d \in DOMAIN last.attributes \cap DOMAIN last'.attributes :
              last.attributes[d] = last'.attributes[d] =>
                  /\ last.value \in DOMAIN coordinate_map'
                  /\ last'.value \in DOMAIN coordinate_map'
                  /\ coordinate_map'[last.value] \in DOMAIN coordinate_mappings'[d]
                  /\ coordinate_map'[last'.value] \in DOMAIN coordinate_mappings'[d]
                  /\ coordinate_mappings'[d][coordinate_map'[last.value]]
                        = coordinate_mappings'[d][coordinate_map'[last'.value]]
                  /\ Cardinality({i \in DOMAIN dimensional_spaces'[d].value_domain :
                          dimensional_spaces'[d].value_domain[i] = last'.attributes[d]}) = 1]_vars

\* C8: a successful update_dimension_value(dimension, old, new) keeps the id
\* of old and makes it resolve to new, writes no coordinate mapping, no axis
\* slot and no other dimension's interner; every point bound to that id
\* resolves to new and every other dimension resolves as before.
C8_UpdateDimensionValueFrame ==
    [][(last'.op = "update_dimension_value" /\ last'.ret = TRUE) =>
          LET d == last'.dimension
              id == dimensional_spaces[d].value_to_id[last'.old]
          IN /\ dimensional_spaces'[d].value_domain =
                   [dimensional_spaces[d].value_domain EXCEPT ![id] = last'.new]
             /\ dimensional_spaces'[d].value_to_id[last'.new] = id
             /\ dimensional_spaces'[d].next_id = dimensional_spaces[d].next_id
             /\ coordinate_mappings' = coordinate_mappings
             /\ vector_points' = vector_points
             /\ coordinate_map' = coordinate_map
             /\ \A e \in DOMAIN dimensional_spaces \ {d} :
                   dimensional_spaces'[e] = dimensional_spaces[e]
             /\ \A v \in DOMAIN coordinate_map :
                   /\ (/\ coordinate_map[v] \in DOMAIN coordinate_mappings[d]
                       /\ coordinate_mappings[d][coordinate_map[v]] = id) =>
                           ResolveNext(v, d) = last'.new
                   /\ \A e \in Dimensions \ {d} :
                         ResolveNext(v, e) = ResolveNow(v, e)]_vars

C8_Witness ==
    /\ last.op = "update_dimension_value"
    /\ last.ret = TRUE
    /\ last.old # last.new
    /\ \A v \in RowIdentityArgs : ResolveNow(v, last.dimension) = last.new
    /\ \E v \in RowIdentityArgs, e \in Dimensions \ {last.dimension} :
          ResolveNow(v, e) = last.old

\* C9: for every reachable in-memory state, save() followed by a load into
\* a new instance from the same path gives the same lookup(identity,
\* dimension) result for every pair and the same identity -> coordinate
\* index.
C9_SaveLoadRoundTrip ==
    LET loaded == load_into_new(save_database(serialize_database(Db),
                                              stamp_metadata(metadata, Db)))
    IN /\ loaded.map = coordinate_map
       /\ \A value \in RowIdentityArgs \cup {None}, dimension \in Dimensions :
             lookup(<< >>, loaded.map, loaded.spaces, loaded.mappings,
                    value, dimension)
               = LookupNow(value, dimension)

\* ------------------------------------------- VectorFileStorage: save / load
\* Each call p runs save_database / load_database ("sync") or
\* save_database_async / load_database_async ("async") of storage instance
\* inst on the one database path.
Payload(p) == <<"data", p>>
Truncated == <<"truncated">>
Calls == 1 .. NumProcs

storeFrame == UNCHANGED <<axisVars, dbVars, metadata, facadeVars, last, ops, pure>>

\* the call begins; a load returns None at once when the file does not exist
Start(p, op, mode, inst) ==
    /\ procs[p].pc = "idle"
    /\ procs' = [procs EXCEPT ![p] =
                    IF op = "load" /\ disk = << >>
                    THEN [IdleCall EXCEPT !.pc = "done", !.op = op, !.mode = mode,
                                          !.inst = inst, !.ret = "absent"]
                    ELSE [IdleCall EXCEPT !.pc = "acquire", !.op = op,
                                          !.mode = mode, !.inst = inst]]
    /\ UNCHANGED <<disk, file_lock, async_lock>>
    /\ storeFrame

\* with FileLock(self.lock_path, timeout=10)
AcquireFileLock(p) ==
    /\ procs[p].pc = "acquire"
    /\ procs[p].mode = "sync"
    /\ file_lock = 0
    /\ file_lock' = p
    /\ procs' = [procs EXCEPT ![p].pc = "locked"]
    /\ UNCHANGED <<disk, async_lock>>
    /\ storeFrame

\* the file opened for writing before the lock is asked for
LockTimeout_afterOpen(p) ==
    /\ procs[p].pc = "acquire"
    /\ procs[p].mode = "sync"
    /\ file_lock # 0
    /\ procs' = [procs EXCEPT ![p].pc = "done", ![p].ret = "failed"]
    /\ disk' = IF procs[p].op = "save" THEN Truncated ELSE disk
    /\ UNCHANGED <<file_lock, async_lock>>
    /\ storeFrame

\* the lock is not free within the timeout: Timeout is caught, False / None
LockTimeout(p) ==
    /\ procs[p].pc = "acquire"
    /\ procs[p].mode = "sync"
    /\ file_lock # 0
    /\ procs' = [procs EXCEPT ![p].pc = "done", ![p].ret = "failed"]
    /\ UNCHANGED <<disk, file_lock, async_lock>>
    /\ storeFrame

\* async with self._get_async_lock(): the instance's own asyncio.Lock
AcquireAsyncLock(p) ==
    /\ procs[p].pc = "acquire"
    /\ procs[p].mode = "async"
    /\ async_lock[procs[p].inst] = 0
    /\ async_lock' = [async_lock EXCEPT ![procs[p].inst] = p]
    /\ procs' = [procs EXCEPT ![p].pc = "locked"]
    /\ UNCHANGED <<disk, file_lock>>
    /\ storeFrame

\* open(self.file_path, 'wb'): the file is truncated
OpenForWrite(p) ==
    /\ procs[p].pc = "locked"
    /\ procs[p].op = "save"
    /\ disk' = Truncated
    /\ procs' = [procs EXCEPT ![p].pc = "writing"]
    /\ UNCHANGED <<file_lock, async_lock>>
    /\ storeFrame

\* f.write(compressed_data)
WriteFile(p) ==
    /\ procs[p].pc = "writing"
    /\ disk' = Payload(p)
    /\ procs' = [procs EXCEPT ![p].pc = "leaving", ![p].ret = "ok"]
    /\ UNCHANGED <<file_lock, async_lock>>
    /\ storeFrame

\* compressed_data = f.read()
ReadFile(p) ==
    /\ procs[p].pc = "locked"
    /\ procs[p].op = "load"
    /\ procs' = [procs EXCEPT ![p].pc = "leaving", ![p].seen = disk,
                              ![p].ret = IF disk = Truncated \/ disk = << >>
                                         THEN "absent" ELSE "ok"]
    /\ UNCHANGED <<disk, file_lock, async_lock>>
    /\ storeFrame

\* the with block is left: the lock taken by this call is released
Release(p) ==
    /\ procs[p].pc = "leaving"
    /\ file_lock' = IF procs[p].mode = "sync" THEN 0 ELSE file_lock
    /\ async_lock' = IF procs[p].mode = "async"
                     THEN [async_lock EXCEPT ![procs[p].inst] = 0]
                     ELSE async_lock
    /\ procs' = [procs EXCEPT ![p].pc = "done"]
    /\ UNCHANGED disk
    /\ storeFrame

\* the call returns
Return(p) ==
    /\ procs[p].pc = "done"
    /\ procs' = [procs EXCEPT ![p] = IdleCall]
    /\ UNCHANGED <<disk, file_lock, async_lock>>
    /\ storeFrame

NextStore ==
    \/ \E p \in Calls, op \in {"save", "load"}, mode \in {"sync", "async"},
          inst \in 1 .. NumInstances : Start(p, op, mode, inst)
    \/ \E p \in Calls : AcquireFileLock(p)
    \/ \E p \in Calls : LockTimeout(p)
    \/ \E p \in Calls : AcquireAsyncLock(p)
    \/ \E p \in Calls : OpenForWrite(p)
    \/ \E p \in Calls : WriteFile(p)
    \/ \E p \in Calls : ReadFile(p)
    \/ \E p \in Calls : Release(p)
    \/ \E p \in Calls : Return(p)

SpecStore == Init /\ [][NextStore]_vars

\* ------------------------------------------------------------ storage claims
\* the call has the database file open, or has read it and not yet left the
\* with block
InCritical(p) == procs[p].pc \in {"writing", "leaving"}
IsWriting(p) == procs[p].pc = "writing" \/ (procs[p].pc = "leaving" /\ procs[p].op = "save")

\* C10: every save and load, synchronous or asynchronous, from any storage
\* instance, writes or reads the file while holding the exclusive lock on
\* <path>.lock, so a write never overlaps another write or a read of the same
\* path and no reader sees a partially written file.
C10_FileAccessUnderFileLock ==
    /\ \A p \in Calls : InCritical(p) => file_lock = p
    /\ \A p, q \in Calls : (p # q /\ IsWriting(p)) => ~InCritical(q)
    /\ \A p \in Calls : procs[p].seen # Truncated

\* C11: a save that cannot take the file lock within the timeout returns
\* failure without having opened the file, which stays what it was; a save
\* that finds the lock free takes it, writes its payload and returns success.
C11_LockTimeoutLeavesFile ==
    [][\A p \in Calls :
          procs[p].op = "save" =>
             /\ (procs[p].ret # "failed" /\ procs'[p].ret = "failed") =>
                   /\ disk' = disk
                   /\ file_lock \notin {0, p}
                   /\ procs'[p].pc = "done"
             /\ (procs[p].mode = "sync" /\ procs[p].pc = "acquire"
                    /\ file_lock = 0 /\ procs'[p] # procs[p]) =>
                   /\ procs'[p].pc = "locked"
                   /\ file_lock' = p
             /\ (procs[p].pc = "writing" /\ procs'[p] # procs[p]) =>
                   /\ disk' = Payload(p)
                   /\ procs'[p].ret = "ok"
             /\ (procs[p].pc # "done" /\ procs'[p].pc = "done") =>
                   procs'[p].ret \in {"ok", "failed"}]_vars

\* a save has timed out while the file holds what another call wrote
C11_Witness ==
    \E p, q \in Calls :
       /\ p # q
       /\ procs[p].op = "save"
       /\ procs[p].pc = "done"
       /\ procs[p].ret = "failed"
       /\ disk = Payload(q)

\* ------------------------------------------------- loading a damaged file
\* another program leaves a file on the path that cannot be decoded
Garble ==
    /\ disk # << >>
    /\ disk # Undecodable
    /\ disk' = Undecodable
    /\ UNCHANGED <<axisVars, dbVars, procs, file_lock, async_lock, metadata,
                   facadeVars, last, ops, pure>>

\* another program leaves a decodable file one section of which has not the
\* shape the restoring code converts
Damage(section) ==
    /\ disk # << >>
    /\ ~IsUndecodable(disk)
    /\ section \notin disk[1].malformed
    /\ disk' = <<[disk[1] EXCEPT !.malformed = @ \cup {section}]>>
    /\ UNCHANGED <<axisVars, dbVars, procs, file_lock, async_lock, metadata,
                   facadeVars, last, ops, pure>>

NextLoad ==
    \/ \E value \in RowIdentityArgs, attributes \in AttributeArgs :
          Insert(value, attributes, NoPosition)
    \/ Save
    \/ Garble
    \/ \E section \in Sections : Damage(section)
    \/ Open

SpecLoad == Init /\ [][NextLoad]_vars

\* C12: a load that fails (missing, undecodable or incompatible file, or a
\* payload a later section of which cannot be restored) leaves the axis, the
\* interners, the mappings and the storage metadata of the loading instance
\* as they were before the load, which for _load_database() is the state of
\* a newly constructed instance.
C12_FailedLoadChangesNothing ==
    [][(last'.op = "open" /\ ops' = ops + 1 /\ ~last'.ok) =>
          /\ vector_points' = << >>
          /\ coordinate_map' = EmptyMap
          /\ dimensional_spaces' = EmptyMap
          /\ coordinate_mappings' = EmptyMap
          /\ metadata' = NewMetadata]_vars

\* ------------------------------------------------ the facade and its RLock
\* Every public operation of the facade is "with self.__lock: return
\* self.__coordinate_service.<operation>(...)".
FacadeOps == {"insert", "lookup", "save", "__enter__", "__exit__"}
Threads == 1 .. NumThreads

facadeFrame == UNCHANGED <<axisVars, dbVars, disk, procs, file_lock,
                           async_lock, metadata, workers, last, ops, pure>>

\* a plain threading.Lock in the place of the RLock
rlock_free_notReentrant(lock, t) == lock.owner = 0

\* threading.RLock(): free for a thread when nobody or the thread itself
\* holds it
rlock_free(lock, t) == lock.owner = 0 \/ lock.owner = t

\* a thread calls a public operation
FacadeCall(t, op) ==
    /\ threads[t].pc = "idle"
    /\ threads' = [threads EXCEPT ![t] = [pc |-> "acquire", stack |-> <<op>>]]
    /\ UNCHANGED <<rlock, facade>>
    /\ facadeFrame

\* with self.__lock: entered
FacadeAcquire(t) ==
    /\ threads[t].pc = "acquire"
    /\ rlock_free(rlock, t)
    /\ rlock' = [owner |-> t, count |-> rlock.count + 1]
    /\ threads' = [threads EXCEPT ![t].pc = "body"]
    /\ UNCHANGED facade
    /\ facadeFrame

\* the body: the call of the service
FacadeBody(t) ==
    /\ threads[t].pc = "body"
    /\ threads' = [threads EXCEPT ![t].pc = "release"]
    /\ UNCHANGED <<rlock, facade>>
    /\ facadeFrame

\* inside a body the thread calls a public operation of the same instance
FacadeReenter(t, op) ==
    /\ threads[t].pc = "body"
    /\ Len(threads[t].stack) < MaxDepth
    /\ threads' = [threads EXCEPT ![t] = [pc |-> "acquire",
                                          stack |-> Append(@.stack, op)]]
    /\ UNCHANGED <<rlock, facade>>
    /\ facadeFrame

\* with self.__lock: left; the operation returns to its caller
FacadeRelease(t) ==
    /\ threads[t].pc = "release"
    /\ rlock' = [owner |-> IF rlock.count = 1 THEN 0 ELSE rlock.owner,
                 count |-> rlock.count - 1]
    /\ threads' = [threads EXCEPT ![t] =
                      [pc |-> IF Len(@.stack) = 1 THEN "idle" ELSE "release",
                       stack |-> SubSeq(@.stack, 1, Len(@.stack) - 1)]]
    /\ UNCHANGED facade
    /\ facadeFrame

NextFacade ==
    \/ \E t \in Threads, op \in FacadeOps : FacadeCall(t, op)
    \/ \E t \in Threads : FacadeAcquire(t)
    \/ \E t \in Threads : FacadeBody(t)
    \/ \E t \in Threads, op \in FacadeOps : FacadeReenter(t, op)
    \/ \E t \in Threads : FacadeRelease(t)

SpecFacade == Init /\ [][NextFacade]_vars

\* the thread is inside the body of a public operation
InBody(t) ==
    \/ threads[t].pc \in {"body", "release"}
    \/ threads[t].pc = "acquire" /\ Len(threads[t].stack) > 1

\* C13: every public operation of the facade runs its body while the thread
\* holds the instance's one lock, so no two threads are inside a body at the
\* same time, and a thread that holds the lock and calls a public operation
\* again takes the lock again at once.
C13_FacadeSerialized ==
    /\ \A t \in Threads : InBody(t) => rlock.owner = t
    /\ \A t, u \in Threads : (InBody(t) /\ InBody(u)) => t = u
    /\ \A t \in Threads :
          (threads[t].pc = "acquire" /\ rlock.owner = t) => ENABLED FacadeAcquire(t)
    /\ (rlock.owner = 0) = (rlock.count = 0)

\* a thread is inside a nested operation while another waits for the lock
C13_Witness ==
    \E t, u \in Threads :
       /\ t # u
       /\ threads[t].pc = "body"
       /\ Len(threads[t].stack) = MaxDepth
       /\ rlock.count = MaxDepth
       /\ threads[u].pc = "acquire"

\* ----------------------------------------------------------- batch variants
\* the longest batch
MaxBatch == 2

DbOf(r) == [points |-> r.points, map |-> r.map, spaces |-> r.spaces,
            mappings |-> r.mappings]

\* len(record): a tuple is a record of its components
RecordLen(record) == Cardinality(DOMAIN record)

\* the loop of batch_insert from record i on: a record of two components has
\* no position, one of three has its own, any other raises ValueError and
\* ends the loop; insert(...) of each record in turn, its coordinate
\* appended to coordinates
RECURSIVE batch_insert_loop(_, _, _, _)
batch_insert_loop(db, records, i, coordinates) ==
    IF i > Len(records)
    THEN [db |-> db, ret |-> coordinates, raised |-> FALSE]
    ELSE IF RecordLen(records[i]) \notin {2, 3}
    THEN [db |-> db, ret |-> << >>, raised |-> TRUE]
    ELSE LET position == IF RecordLen(records[i]) = 2 THEN NoPosition
                         ELSE records[i].position
             r == insert(db, records[i].value, records[i].attributes, position)
         IN batch_insert_loop(DbOf(r), records, i + 1, Append(coordinates, r.ret))

\* the coordinates prepended instead of appended
batch_insert_reversed(db, c, records) ==
    LET RECURSIVE Reverse(_)
        Reverse(s) == IF s = << >> THEN << >>
                      ELSE Append(Reverse(Tail(s)), Head(s))
        done == batch_insert_loop(db, records, 1, << >>)
    IN [db |-> done.db, cache |-> << >>, ret |-> Reverse(done.ret),
        raised |-> done.raised]

\* the records checked before the first of them is inserted
batch_insert_allOrNothing(db, c, records) ==
    LET done == batch_insert_loop(db, records, 1, << >>)
    IN [db |-> IF done.raised THEN db ELSE done.db, cache |-> << >>,
        ret |-> done.ret, raised |-> done.raised]

\* batch_insert(records): the cache is cleared, then the loop
batch_insert(db, c, records) ==
    LET done == batch_insert_loop(db, records, 1, << >>)
    IN [db |-> done.db, cache |-> << >>, ret |-> done.ret,
        raised |-> done.raised]

\* the loop of batch_lookup from query i on
RECURSIVE batch_lookup_loop(_, _, _, _, _)
batch_lookup_loop(db, c, queries, i, results) ==
    IF i > Len(queries) THEN [cache |-> c, ret |-> results]
    ELSE batch_lookup_loop(
            db,
            lookup_cache(c, db.map, db.spaces, db.mappings,
                         queries[i].value, queries[i].dimension),
            queries, i + 1,
            Append(results, lookup(c, db.map, db.spaces, db.mappings,
                                   queries[i].value, queries[i].dimension)))

\* batch_lookup(queries)
batch_lookup(db, c, queries) == batch_lookup_loop(db, c, queries, 1, << >>)

\* the loop of batch_update from update i on
RECURSIVE batch_update_loop(_, _, _, _, _)
batch_update_loop(db, c, updates, i, successful_updates) ==
    IF i > Len(updates)
    THEN [db |-> db, cache |-> c, ret |-> successful_updates]
    ELSE LET r == update(db, c, updates[i].value, updates[i].dimension,
                         updates[i].new_value)
         IN batch_update_loop(r.db, r.cache, updates, i + 1,
                              IF r.ret THEN successful_updates + 1
                              ELSE successful_updates)

\* batch_update(updates): the cache is cleared, then the loop
batch_update(db, c, updates) == batch_update_loop(db, << >>, updates, 1, 0)

BatchAttributeArgs == {EmptyMap, [n \in {"e"} |-> "x"]}
RecordArgs == [value : RowIdentityArgs, attributes : BatchAttributeArgs,
               position : {NoPosition, <<0>>}]
QueryArgs == [value : RowIdentityArgs, dimension : Dimensions]
UpdateArgs == [value : RowIdentityArgs, dimension : {"e"},
               new_value : Values \cup {None}]
Batches(S) == UNION {[1 .. n -> S] : n \in 0 .. MaxBatch}

BatchInsert(records) ==
    LET r == batch_insert(Db, cache, records)
    IN /\ Called
       /\ WithinBounds(r.db)
       /\ vector_points' = r.db.points
       /\ coordinate_map' = r.db.map
       /\ dimensional_spaces' = r.db.spaces
       /\ coordinate_mappings' = r.db.mappings
       /\ cache' = r.cache
       /\ last' = [op |-> "batch_insert", batch |-> records, ret |-> r.ret,
                   raised |-> r.raised]
       /\ pure' = NotPure
       /\ UNCHANGED storeVars

BatchLookup(queries) ==
    LET r == batch_lookup(Db, cache, queries)
    IN /\ Called
       /\ cache' = r.cache
       /\ last' = [op |-> "batch_lookup", batch |-> queries, ret |-> r.ret]
       /\ pure' = NotPure
       /\ UNCHANGED <<axisVars, dimensional_spaces, coordinate_mappings, storeVars>>

BatchUpdate(updates) ==
    LET r == batch_update(Db, cache, updates)
    IN /\ Called
       /\ WithinBounds(r.db)
       /\ dimensional_spaces' = r.db.spaces
       /\ coordinate_mappings' = r.db.mappings
       /\ cache' = r.cache
       /\ last' = [op |-> "batch_update", batch |-> updates, ret |-> r.ret]
       /\ pure' = NotPure
       /\ UNCHANGED <<axisVars, storeVars>>

NextBatch ==
    \/ \E value \in RowIdentityArgs, attributes \in BatchAttributeArgs :
          Insert(value, attributes, NoPosition)
    \/ \E value \in RowIdentityArgs, dimension \in Dimensions :
          Lookup(value, dimension)
    \/ \E records \in Batches(RecordArgs) : BatchInsert(records)
    \/ \E queries \in Batches(QueryArgs) : BatchLookup(queries)
    \/ \E updates \in Batches(UpdateArgs) : BatchUpdate(updates)

SpecBatch == Init /\ [][NextBatch]_vars

\* the same calls made one by one: insert, lookup and update of each entry
\* in input order, the results collected in input order
RECURSIVE OneByOneInsert(_, _, _)
OneByOneInsert(db, c, records) ==
    IF records = << >> THEN [db |-> db, cache |-> c, ret |-> << >>]
    ELSE LET r == insert(db, Head(records).value, Head(records).attributes,
                         Head(records).position)
             rest == OneByOneInsert(DbOf(r), c, Tail(records))
         IN [rest EXCEPT !.ret = <<r.ret>> \o @]

RECURSIVE OneByOneLookup(_, _, _)
OneByOneLookup(db, c, queries) ==
    IF queries = << >> THEN [db |-> db, cache |-> c, ret |-> << >>]
    ELSE LET q == Head(queries)
             rest == OneByOneLookup(
                        db,
                        lookup_cache(c, db.map, db.spaces, db.mappings,
                                     q.value, q.dimension),
                        Tail(queries))
         IN [rest EXCEPT !.ret = <<lookup(c, db.map, db.spaces, db.mappings,
                                          q.value, q.dimension)>> \o @]

RECURSIVE OneByOneUpdate(_, _, _)
OneByOneUpdate(db, c, updates) ==
    IF updates = << >> THEN [db |-> db, cache |-> c, ret |-> 0]
    ELSE LET u == Head(updates)
             r == update(db, c, u.value, u.dimension, u.new_value)
             rest == OneByOneUpdate(r.db, r.cache, Tail(updates))
         IN [rest EXCEPT !.ret = @ + (IF r.ret THEN 1 ELSE 0)]

OneByOne ==
    CASE last'.op = "batch_insert" -> OneByOneInsert(Db, cache, last'.batch)
      [] last'.op = "batch_lookup" -> OneByOneLookup(Db, cache, last'.batch)
      [] last'.op = "batch_update" -> OneByOneUpdate(Db, cache, last'.batch)

IsBatchStep ==
    /\ ops' = ops + 1
    /\ last'.op \in {"batch_insert", "batch_lookup", "batch_update"}

\* C14 as stated: a batch call returns what the individual calls return, in
\* input order, and leaves the state, cache included, that the individual
\* calls leave.
C14_BatchEqualsOneByOne ==
    [][IsBatchStep =>
          /\ last'.ret = OneByOne.ret
          /\ vector_points' = OneByOne.db.points
          /\ coordinate_map' = OneByOne.db.map
          /\ dimensional_spaces' = OneByOne.db.spaces
          /\ coordinate_mappings' = OneByOne.db.mappings
          /\ cache' = OneByOne.cache]_vars

\* C14: a batch call returns what the individual calls return, in input
\* order (batch_update their number of successes), and leaves the axis, the
\* interners and the mappings that the individual calls leave; batch_lookup
\* leaves their cache too, batch_insert and batch_update leave the cache
\* empty.
C14_BatchEqualsOneByOneButCache ==
    [][IsBatchStep =>
          /\ last'.ret = OneByOne.ret
          /\ vector_points' = OneByOne.db.points
          /\ coordinate_map' = OneByOne.db.map
          /\ dimensional_spaces' = OneByOne.db.spaces
          /\ coordinate_mappings' = OneByOne.db.mappings
          /\ cache' = IF last'.op = "batch_lookup" THEN OneByOne.cache
                      ELSE << >>]_vars

\* the last of the calls, a batch insert of two records, has returned two
\* different coordinates and left the cache empty
C14_Witness ==
    /\ last.op = "batch_insert"
    /\ Len(last.batch) = MaxBatch
    /\ Len(last.ret) = MaxBatch
    /\ last.ret[1] # last.ret[2]
    /\ cache = << >>
    /\ ops = MaxOps

\* ------------------------------------------------------- input validation
InvalidArgs == {None, "", Oversized}
CheckedIdentityArgs == {"a"} \cup InvalidArgs
CheckedDimensionArgs == {"e", ""}
CheckedValueArgs == {"x", None}
CheckedAttributeArgs ==
    UNION {[D -> CheckedValueArgs] : D \in SUBSET CheckedDimensionArgs}

NextChecked ==
    \/ \E value \in CheckedIdentityArgs, attributes \in CheckedAttributeArgs :
          Insert(value, attributes, NoPosition)
    \/ \E value \in CheckedIdentityArgs,
          dimension \in CheckedDimensionArgs \cup {None},
          new_value \in CheckedValueArgs \cup {"", Oversized} :
          Update(value, dimension, new_value)

SpecChecked == Init /\ [][NextChecked]_vars

\* the last call was an insert or an update one argument of which is None,
\* an empty text or an oversized text
InvalidCall(call) ==
    \/ /\ call.op = "insert"
       /\ \/ call.value \in InvalidArgs
          \/ \E n \in DOMAIN call.attributes :
                n \in InvalidArgs \/ call.attributes[n] \in InvalidArgs
    \/ /\ call.op = "update"
       /\ \/ call.value \in InvalidArgs
          \/ call.dimension \in InvalidArgs
          \/ call.new_value \in InvalidArgs

\* C15: an insert or an update called with a None, empty or oversized
\* identity, dimension name or value leaves the axis, the interners and the
\* coordinate mappings unchanged, and update returns False.
C15_InvalidInputRejected ==
    [][(ops' = ops + 1 /\ InvalidCall(last')) =>
          /\ UNCHANGED <<vector_points, coordinate_map, dimensional_spaces,
                         coordinate_mappings>>
          /\ last'.op = "update" => last'.ret = FALSE]_vars

\* ----------------------------------------------------- lookups of the absent
\* identities whose renderings in a cache key coincide: the integer 1 and
\* the text '1'
AliasIdentityArgs == {"i1", "s1"}

NextLookup ==
    \/ \E value \in AliasIdentityArgs, attributes \in BatchAttributeArgs :
          Insert(value, attributes, NoPosition)
    \/ \E value \in AliasIdentityArgs, dimension \in Dimensions :
          Lookup(value, dimension)
    \/ \E value \in AliasIdentityArgs : Remove(value)

SpecLookup == Init /\ [][NextLookup]_vars

\* the identity is unknown, the dimension is unknown, or the point has no
\* mapping entry in the dimension
NotFound(value, dimension) ==
    \/ value \notin DOMAIN coordinate_map
    \/ dimension \notin DOMAIN coordinate_mappings
    \/ coordinate_map[value] \notin DOMAIN coordinate_mappings[dimension]

\* C16: lookup(identity, dimension) of an unknown identity, an unknown
\* dimension or a point without mapping entry in the dimension returns None
\* and changes nothing: no dimension, interner entry, mapping entry or cache
\* entry is added.
C16_LookupOfAbsent ==
    [][(ops' = ops + 1 /\ last'.op = "lookup"
           /\ NotFound(last'.value, last'.dimension)) =>
          /\ last'.ret = None
          /\ UNCHANGED <<vector_points, coordinate_map, dimensional_spaces,
                         coordinate_mappings, cache>>]_vars

\* ------------------------------------------------------- the lookup cache
\* any number of lookups after at most MaxOps inserts
LookupAgain(value, dimension) ==
    /\ LookupCall(value, dimension)
    /\ UNCHANGED ops

NextCache ==
    \/ \E value \in RowIdentityArgs, attributes \in AttributeArgs :
          Insert(value, attributes, NoPosition)
    \/ \E value \in RowIdentityArgs, dimension \in Dimensions :
          LookupAgain(value, dimension)

SpecCache == Init /\ [][NextCache]_vars

\* the entries of c other than key, in their order
Others(c, key) == SelectSeq(c, LAMBDA e : e[1] # key)

\* C17: the cache never holds more entries than its capacity; its order is
\* the order of last use: a hit moves the entry to the most recent end and
\* keeps the others in order, a miss that finds a value appends it, and when
\* the cache was full the one entry dropped is the one at the least recent
\* end.
C17_CacheIsLRU ==
    [][(last'.op = "lookup" /\ ops' = ops) =>
          LET key == CacheKey(last'.value, last'.dimension)
          IN /\ Len(cache') <= cache_size
             /\ Cardinality(CacheKeys(cache')) = Len(cache')
             /\ last'.hit =>
                   /\ cache'[Len(cache')] = <<key, last'.ret>>
                   /\ Others(cache', key) = Others(cache, key)
             /\ (~last'.hit /\ last'.ret # None) =>
                   /\ cache'[Len(cache')] = <<key, last'.ret>>
                   /\ Others(cache', key) =
                         IF Len(cache) < cache_size THEN cache ELSE Tail(cache)
             /\ (~last'.hit /\ last'.ret = None) => cache' = cache]_vars

\* a lookup that missed has stored its value at the most recent end of a
\* cache that is full, and a pair that resolves to a value is not cached
C17_Witness ==
    /\ last.op = "lookup"
    /\ ~last.hit
    /\ Len(cache) = cache_size
    /\ cache[1][1] = "a:d"
    /\ cache[Len(cache)][1] = "1:e"
    /\ "a:e" \notin CacheKeys(cache)
    /\ Resolve(coordinate_map, dimensional_spaces, coordinate_mappings, "a", "e")
          # None

\* --------------------------------------------------- the axis and its index
\* C18: in every state reached by adds (appending or positional) and
\* removals, index[v] = i if and only if slot i holds the identity v and is
\* no tombstone: None is no key of the index and no entry points at a
\* tombstoned or out-of-range slot.
C18_IndexAgreesWithSlots ==
    /\ None \notin DOMAIN coordinate_map
    /\ \A v \in DOMAIN coordinate_map :
          /\ coordinate_map[v] \in 0 .. Len(vector_points) - 1
          /\ vector_points[coordinate_map[v] + 1] = v
          /\ v # None
    /\ \A i \in 1 .. Len(vector_points) :
          vector_points[i] # None =>
             /\ vector_points[i] \in DOMAIN coordinate_map
             /\ coordinate_map[vector_points[i]] = i - 1

\* ------------------------------------------------------ interner claims
\* C19: in each dimension the ids of the forward table are 1 .. next_id - 1;
\* within one instance an id once bound stays in the table, the counter
\* never decreases and an id added by a call is not below the counter the
\* call found.
C19_IdsNeverReused ==
    [][/\ \A n \in DOMAIN dimensional_spaces' :
             /\ dimensional_spaces'[n].next_id >= 1
             /\ DOMAIN dimensional_spaces'[n].value_domain
                   = 1 .. dimensional_spaces'[n].next_id - 1
       /\ last'.op # "open" =>
             \A n \in DOMAIN dimensional_spaces :
                /\ n \in DOMAIN dimensional_spaces'
                /\ dimensional_spaces'[n].next_id >= dimensional_spaces[n].next_id
                /\ DOMAIN dimensional_spaces[n].value_domain
                      \subseteq DOMAIN dimensional_spaces'[n].value_domain
                /\ \A id \in DOMAIN dimensional_spaces'[n].value_domain
                             \ DOMAIN dimensional_spaces[n].value_domain :
                      id >= dimensional_spaces[n].next_id]_vars

\* once the database was saved, the last of the calls, an insert, has
\* interned a further value of a dimension under the highest id of the model
C19_Witness ==
    /\ last.op = "insert"
    /\ disk # << >>
    /\ \E n \in DOMAIN dimensional_spaces :
          /\ dimensional_spaces[n].next_id = MaxIds + 1
          /\ \E v \in DOMAIN last.attributes :
                /\ v = n
                /\ dimensional_spaces[n].value_to_id[last.attributes[v]] = MaxIds
    /\ ops = MaxOps

\* every reverse entry value -> id has forward[id] = value
ReverseRoundTrips(space) ==
    \A w \in DOMAIN space.value_to_id :
       /\ space.value_to_id[w] \in DOMAIN space.value_domain
       /\ space.value_domain[space.value_to_id[w]] = w

\* C20: after any adds and updates every reverse entry value -> id of an
\* interner has forward[id] = value; an update(old, new) where new owned
\* another id j merges nothing: the updated id and j both stay in the
\* forward table and resolve to new, and the reverse index maps new to the
\* updated id.
C20_ReverseIndexRoundTrips ==
    [][/\ \A n \in DOMAIN dimensional_spaces' :
             ReverseRoundTrips(dimensional_spaces'[n])
       /\ (ops' = ops + 1 /\ last'.op = "update_dimension_value" /\ last'.ret) =>
             LET before == dimensional_spaces[last'.dimension]
                 after == dimensional_spaces'[last'.dimension]
                 id == before.value_to_id[last'.old]
             IN /\ last'.old \in DOMAIN before.value_to_id
                /\ last'.new \in DOMAIN after.value_to_id
                /\ after.value_domain[id] = last'.new
                /\ after.value_to_id[last'.new] = id
                /\ DOMAIN after.value_domain = DOMAIN before.value_domain
                /\ \A j \in DOMAIN before.value_domain :
                      (j # id => after.value_domain[j] = before.value_domain[j])]_vars

\* an update has given its new value to an id while another id already held
\* that value: two ids of the dimension resolve to it
C20_Witness ==
    /\ last.op = "update_dimension_value"
    /\ last.ret
    /\ last.old # last.new
    /\ \E i, j \in DOMAIN dimensional_spaces[last.dimension].value_domain :
          /\ i # j
          /\ dimensional_spaces[last.dimension].value_domain[i] = last.new
          /\ dimensional_spaces[last.dimension].value_domain[j] = last.new
          /\ dimensional_spaces[last.dimension].value_to_id[last.new] = i

\* ------------------------------------------------- points and their values
\* inserts, lookups, updates and removals of two identities
PointAttributeArgs ==
    {EmptyMap, [n \in {"e"} |-> "x"], [n \in {"e"} |-> "y"],
     [n \in {"d", "e"} |-> "x"]}

NextPoints ==
    \/ \E value \in RowIdentityArgs, attributes \in PointAttributeArgs,
          position \in RowPositionArgs : Insert(value, attributes, position)
    \/ \E value \in RowIdentityArgs, dimension \in Dimensions :
          Lookup(value, dimension)
    \/ \E value \in RowIdentityArgs, new_value \in Values :
          Update(value, "e", new_value)
    \/ \E value \in RowIdentityArgs : Remove(value)

SpecPoints == Init /\ [][NextPoints]_vars

\* C21: update(identity, dimension, value) of an identity that is not
\* registered returns False and leaves the axis, the set of dimensions, every
\* interner and every coordinate mapping as they were: the dimension is not
\* created and the value is not interned.
C21_UpdateOfUnknownIdentity ==
    [][(/\ ops' = ops + 1
        /\ last'.op = "update"
        /\ last'.value \notin DOMAIN coordinate_map) =>
          /\ last'.ret = FALSE
          /\ vector_points' = vector_points
          /\ coordinate_map' = coordinate_map
          /\ DOMAIN dimensional_spaces' = DOMAIN dimensional_spaces
          /\ dimensional_spaces' = dimensional_spaces
          /\ coordinate_mappings' = coordinate_mappings]_vars

\* an update of an identity that is not registered, in a dimension that was
\* never used, has returned False while another identity is registered
C21_Witness ==
    /\ last.op = "update"
    /\ last.ret = FALSE
    /\ validate_input(last.new_value)
    /\ last.value \notin DOMAIN coordinate_map
    /\ last.dimension \notin DOMAIN dimensional_spaces
    /\ coordinate_map # EmptyMap

\* C22: remove(identity) changes only the axis: the slot of the identity
\* becomes a tombstone, every other slot stays, the index loses the entry of
\* the identity and keeps the others; no interner and no coordinate mapping
\* changes, so the mapping entries of the removed coordinate are still there.
C22_RemoveChangesOnlyAxis ==
    [][(ops' = ops + 1 /\ last'.op = "remove" /\ last'.ret = TRUE) =>
          LET v == last'.value
              c == coordinate_map[v]
          IN /\ v \in DOMAIN coordinate_map
             /\ Len(vector_points') = Len(vector_points)
             /\ vector_points[c + 1] = v
             /\ vector_points'[c + 1] = None
             /\ \A i \in 1 .. Len(vector_points) :
                   i # c + 1 => vector_points'[i] = vector_points[i]
             /\ DOMAIN coordinate_map' = DOMAIN coordinate_map \ {v}
             /\ \A w \in DOMAIN coordinate_map' :
                   coordinate_map'[w] = coordinate_map[w]
             /\ dimensional_spaces' = dimensional_spaces
             /\ coordinate_mappings' = coordinate_mappings
             /\ cache' = cache
             /\ \A n \in DOMAIN coordinate_mappings :
                   c \in DOMAIN coordinate_mappings[n] =>
                      /\ c \in DOMAIN coordinate_mappings'[n]
                      /\ coordinate_mappings'[n][c] = coordinate_mappings[n][c]]_vars

\* an identity with values in two dimensions has been removed: its slot is a
\* tombstone, the other identity is still registered, and both mappings
\* still hold the entry of the removed coordinate
C22_Witness ==
    /\ last.op = "remove"
    /\ last.ret = TRUE
    /\ Len(vector_points) = 2
    /\ \E c \in 0 .. 1 :
          /\ vector_points[c + 1] = None
          /\ \A n \in Dimensions :
                /\ n \in DOMAIN coordinate_mappings
                /\ c \in DOMAIN coordinate_mappings[n]
    /\ coordinate_map # EmptyMap

\* the value-id the point of an identity is bound to in a dimension
BoundId(map, mappings, value, dimension) ==
    mappings[dimension][map[value]]

\* C25: update(identity, dimension, value) of a registered identity makes
\* that one (identity, dimension) pair resolve to the value and changes no
\* other: every other identity, those bound to the value-id the identity had
\* in the dimension included, and every other dimension of the identity
\* resolve as before, the axis is untouched, and every id of every interner
\* keeps its value, the previous value of the pair with it.
C25_UpdateChangesOnePair ==
    [][(ops' = ops + 1 /\ last'.op = "update" /\ last'.ret = TRUE) =>
          LET v == last'.value
              d == last'.dimension
          IN /\ v \in DOMAIN coordinate_map
             /\ ResolveNext(v, d) = last'.new_value
             /\ \A w \in DOMAIN coordinate_map, n \in Dimensions :
                   (w # v \/ n # d) => ResolveNext(w, n) = ResolveNow(w, n)
             /\ vector_points' = vector_points
             /\ coordinate_map' = coordinate_map
             /\ \A n \in DOMAIN dimensional_spaces :
                   /\ n \in DOMAIN dimensional_spaces'
                   /\ \A id \in DOMAIN dimensional_spaces[n].value_domain :
                         /\ id \in DOMAIN dimensional_spaces'[n].value_domain
                         /\ dimensional_spaces'[n].value_domain[id]
                               = dimensional_spaces[n].value_domain[id]
                   /\ \A w \in DOMAIN dimensional_spaces[n].value_to_id :
                         /\ w \in DOMAIN dimensional_spaces'[n].value_to_id
                         /\ dimensional_spaces'[n].value_to_id[w]
                               = dimensional_spaces[n].value_to_id[w]]_vars

\* an update has given an identity a value in a dimension while the other
\* identity resolves to another value of the dimension under another id;
\* the updated identity has a value in the other dimension and the interner
\* of the dimension holds as many ids as the model allows
C25_Witness ==
    /\ last.op = "update"
    /\ last.ret = TRUE
    /\ ResolveNow(last.value, last.dimension) = last.new_value
    /\ \E w \in DOMAIN coordinate_map :
          /\ w # last.value
          /\ ResolveNow(w, last.dimension) \notin {None, last.new_value}
          /\ BoundId(coordinate_map, coordinate_mappings, w, last.dimension)
                # BoundId(coordinate_map, coordinate_mappings, last.value,
                          last.dimension)
    /\ \E n \in Dimensions \ {last.dimension} : ResolveNow(last.value, n) # None
    /\ dimensional_spaces[last.dimension].next_id = MaxIds + 1

\* C26: the coordinate returned by add_vector_point / insert is the
\* coordinate the index gives for the identity right afterwards and is the
\* index of a slot that holds the identity, for every position argument,
\* those greater than the number of slots and the negative ones included.
C26_ReturnedCoordinateIsTheCoordinate ==
    [][(last'.op \in {"add", "insert"} /\ last' # last) =>
          /\ last'.value \in DOMAIN coordinate_map'
          /\ coordinate_map'[last'.value] = last'.ret
          /\ last'.ret \in 0 .. Len(vector_points') - 1
          /\ vector_points'[last'.ret + 1] = last'.value]_vars

\* lookup(value, dimension) as it would answer after the step
LookupNext(value, dimension) ==
    lookup(cache', coordinate_map', dimensional_spaces', coordinate_mappings',
           value, dimension)

\* C27: a newly inserted identity has a value only in the dimensions its own
\* attributes name: right after insert(identity, attributes, position) of an
\* identity that was not registered, lookup(identity, d) is None for every
\* dimension d that is not in attributes, whatever removals went before and
\* whatever the position.
C27_NewPointHasOnlyItsAttributes ==
    [][(ops' = ops + 1 /\ last'.op = "insert" /\ last'.fresh) =>
          \A d \in Dimensions \ DOMAIN last'.attributes :
              LookupNext(last'.value, d) = None]_vars

\* C28: read your writes: right after insert(identity, attributes) returns,
\* lookup(identity, d) returns attributes[d] for every dimension d of
\* attributes, also when the identity was registered with another value in d
\* and a lookup had returned that value before.
C28_InsertIsReadBack ==
    [][(ops' = ops + 1 /\ last'.op = "insert") =>
          \A d \in DOMAIN last'.attributes :
              LookupNext(last'.value, d) = last'.attributes[d]]_vars

\* ------------------------------------------------------- cache keys that meet
\* pairs whose renderings joined by ':' coincide: the integer 1 and the text
\* '1' in any dimension, and ('a:b', 'c') and ('a', 'b:c'); every attribute
\* has the one value "x" and no point is removed or moved, so a pair that
\* resolved to a value keeps resolving to it
ColonIdentityArgs == AliasIdentityArgs \cup {"a", "a:b"}
ColonDimensionArgs == {"e", "c", "b:c"}
ColonAttributeArgs ==
    {EmptyMap, [n \in {"e"} |-> "x"], [n \in {"b:c"} |-> "x"]}

NextAlias ==
    \/ \E value \in ColonIdentityArgs, attributes \in ColonAttributeArgs :
          Insert(value, attributes, NoPosition)
    \/ \E value \in ColonIdentityArgs, dimension \in ColonDimensionArgs :
          Lookup(value, dimension)
    \/ \E value \in ColonIdentityArgs, dimension \in ColonDimensionArgs :
          Update(value, dimension, "x")

SpecAlias == Init /\ [][NextAlias]_vars

\* C29: cache entries of different (identity, dimension) pairs never alias:
\* a lookup that is served from the cache returns the value of the very
\* identity and the very dimension it was asked for, also when another pair
\* renders to the same text joined by ':'.
C29_CacheEntriesNeverAlias ==
    [][(ops' = ops + 1 /\ last'.op = "lookup" /\ last'.hit) =>
          last'.ret = ResolveNow(last'.value, last'.dimension)]_vars

\* C30: insert(identity, attributes, position) of an identity that is
\* already registered changes no other point: the axis stays as it is and
\* every other identity resolves to the same value in every dimension as
\* before, whatever the position, one below the identity's coordinate
\* included.
C30_ReinsertChangesNoOtherPoint ==
    [][(ops' = ops + 1 /\ last'.op = "insert" /\ ~last'.fresh) =>
          /\ vector_points' = vector_points
          /\ coordinate_map' = coordinate_map
          /\ \A w \in DOMAIN coordinate_map \ {last'.value}, d \in Dimensions :
                ResolveNext(w, d) = ResolveNow(w, d)]_vars

\* ------------------------------------------- save / load: errors and progress
\* the exception of a failed open, write or read taken straight to the
\* except clause, the lock not given back
IOFailure_lockKept(p) ==
    /\ procs[p].pc \in {"locked", "writing"}
    /\ procs' = [procs EXCEPT ![p].pc = "done", ![p].ret = "error"]
    /\ UNCHANGED <<disk, file_lock, async_lock>>
    /\ storeFrame

\* open(), f.write() or f.read() raises inside the with block: the exception
\* leaves the block, which gives the lock back, and is caught by "except
\* Exception", so the call returns False / None; a file already opened for
\* writing stays truncated
IOFailure(p) ==
    /\ procs[p].pc \in {"locked", "writing"}
    /\ procs' = [procs EXCEPT ![p].pc = "leaving", ![p].ret = "error"]
    /\ UNCHANGED <<disk, file_lock, async_lock>>
    /\ storeFrame

\* gzip.decompress or msgpack.unpackb raises on what was read, after the
\* with block was left: caught, the load returns None
DecodeFailure(p) ==
    /\ procs[p].pc = "done"
    /\ procs[p].op = "load"
    /\ procs[p].ret = "ok"
    /\ procs' = [procs EXCEPT ![p].ret = "error"]
    /\ UNCHANGED <<disk, file_lock, async_lock>>
    /\ storeFrame

NextStoreIO ==
    \/ NextStore
    \/ \E p \in Calls : IOFailure(p)
    \/ \E p \in Calls : DecodeFailure(p)

\* a call that has begun keeps running: it asks for its lock until it has it
\* or the timeout passes, then opens, writes or reads, leaves the with block
\* and returns
Progress(p) ==
    \/ AcquireFileLock(p)
    \/ LockTimeout(p)
    \/ OpenForWrite(p)
    \/ WriteFile(p)
    \/ ReadFile(p)
    \/ Release(p)
    \/ Return(p)

\* the waiters of an asyncio.Lock are woken in the order they came, so a
\* waiter that finds the lock free again and again gets it
SpecStoreFair ==
    /\ Init
    /\ [][NextStoreIO]_vars
    /\ \A p \in Calls : WF_vars(Progress(p))
    /\ \A p \in Calls : SF_vars(AcquireAsyncLock(p))

\* the call is inside its with block
HoldsLock(p) == procs[p].pc \in {"locked", "writing", "leaving"}

\* the lock the call asks for is held by another call that is inside its
\* with block
HeldByRunningCall(q) ==
    \E p \in Calls \ {q} :
       /\ HoldsLock(p)
       /\ IF procs[q].mode = "sync" THEN file_lock = p
          ELSE async_lock[procs[q].inst] = p

\* C23: a save or a load holds no lock once it has left its with block, on
\* every path (success, write or read error, decode error, timeout), and
\* none blocks forever: every call returns, a lock that is held is given
\* back, and a call that asks for the lock comes to hold it unless a call
\* that has not yet left its with block holds it.
C23_LockReleasedOnEveryPath ==
    /\ [](\A p \in Calls :
            ~HoldsLock(p) =>
               /\ file_lock # p
               /\ \A i \in 1 .. NumInstances : async_lock[i] # p)
    /\ \A p \in Calls : (procs[p].pc # "idle") ~> (procs[p].pc = "idle")
    /\ \A p \in Calls : (file_lock = p) ~> (file_lock # p)
    /\ \A p \in Calls, i \in 1 .. NumInstances :
          (async_lock[i] = p) ~> (async_lock[i] # p)
    /\ \A q \in Calls :
          (procs[q].pc = "acquire") ~>
              (\/ procs[q].pc = "locked"
               \/ procs[q].pc = "acquire" /\ HeldByRunningCall(q))

\* a call has failed with a read or write error and returned, and the other
\* call holds the file lock and has the file open
C23_Witness ==
    \E p, q \in Calls :
       /\ p # q
       /\ procs[p].pc = "done"
       /\ procs[p].ret = "error"
       /\ procs[p].mode = "sync"
       /\ file_lock = q
       /\ procs[q].pc = "writing"

\* ------------------------------------------------- the facade as a context
\* The facade hands its work to a CoordinateService and a CacheService whose
\* files are not part of the sources at hand; what they load, save and clear
\* is taken to be what _load_database(), save() and self._cache.clear() of
\* the VectorDB above do.
\* load_database_structure(): the sections of the file put into the
\* structures of the instance; a file that is missing or cannot be read
\* leaves them alone
load_database_structure(db, file) ==
    LET new == load_into_new(file)
    IN IF load_database(file, NewMetadata).data = << >> THEN db
       ELSE [points |-> new.points,
             map |-> new.map,
             spaces |-> [n \in DOMAIN db.spaces \cup DOMAIN new.spaces |->
                           IF n \in DOMAIN new.spaces THEN new.spaces[n]
                           ELSE db.spaces[n]],
             mappings |-> [n \in DOMAIN db.mappings \cup DOMAIN new.mappings |->
                             IF n \in DOMAIN new.mappings THEN new.mappings[n]
                             ELSE db.mappings[n]]]

\* __enter__ without the __initialized flag: every entry loads
Enter_alwaysLoads ==
    LET db == load_database_structure(Db, disk)
    IN /\ Called
       /\ vector_points' = db.points
       /\ coordinate_map' = db.map
       /\ dimensional_spaces' = db.spaces
       /\ coordinate_mappings' = db.mappings
       /\ metadata' = load_database(disk, metadata).metadata
       /\ facade' = [facade EXCEPT !.initialized = TRUE, !.enters = @ + 1,
                                   !.loads = @ + 1]
       /\ last' = [op |-> "__enter__", loaded |-> TRUE]
       /\ pure' = NotPure
       /\ UNCHANGED <<cache, disk, procs, file_lock, async_lock, rlock, threads,
                      workers>>

\* __enter__(): with the lock held, load_database_structure() if the
\* instance is not yet initialized, which it then is
Enter ==
    LET db == IF facade.initialized THEN Db
              ELSE load_database_structure(Db, disk)
    IN /\ Called
       /\ vector_points' = db.points
       /\ coordinate_map' = db.map
       /\ dimensional_spaces' = db.spaces
       /\ coordinate_mappings' = db.mappings
       /\ metadata' = IF facade.initialized THEN metadata
                      ELSE load_database(disk, metadata).metadata
       /\ facade' = [facade EXCEPT
                        !.initialized = TRUE,
                        !.enters = @ + 1,
                        !.loads = IF facade.initialized THEN @ ELSE @ + 1]
       /\ last' = [op |-> "__enter__", loaded |-> ~facade.initialized]
       /\ pure' = NotPure
       /\ UNCHANGED <<cache, disk, procs, file_lock, async_lock, rlock, threads,
                      workers>>

\* __exit__(): with the lock held, try save_database(), which writes the
\* file or raises; an exception is logged and raised again; finally the
\* cache is cleared
Exit(raises) ==
    /\ Called
    /\ metadata' = IF raises THEN metadata ELSE stamp_metadata(metadata, Db)
    /\ disk' = IF raises THEN disk
               ELSE save_database(serialize_database(Db), metadata')
    /\ cache' = << >>
    /\ facade' = [facade EXCEPT !.save_attempts = @ + 1]
    /\ last' = [op |-> "__exit__", saved |-> ~raises, propagated |-> raises]
    /\ pure' = NotPure
    /\ UNCHANGED <<axisVars, dimensional_spaces, coordinate_mappings, procs,
                   file_lock, async_lock, rlock, threads, workers>>

NextContext ==
    \/ \E value \in RowIdentityArgs, attributes \in BatchAttributeArgs :
          Insert(value, attributes, NoPosition)
    \/ \E value \in RowIdentityArgs, dimension \in Dimensions :
          Lookup(value, dimension)
    \/ Enter
    \/ \E raises \in BOOLEAN : Exit(raises)

SpecContext == Init /\ [][NextContext]_vars

\* C24: however often the facade is entered it loads the persisted
\* structure at most once, on the first entry; every exit tries one save and
\* leaves the cache empty, also when the save raises, and then the exception
\* goes on to the caller.
C24_ContextManagerProtocol ==
    [][/\ facade'.loads <= 1
       /\ facade'.loads <= facade'.enters
       /\ (ops' = ops + 1 /\ last'.op = "__enter__") =>
             /\ facade'.initialized
             /\ facade'.enters = facade.enters + 1
             /\ facade'.loads = IF facade.enters = 0 THEN 1 ELSE facade.loads
             /\ last'.loaded = (facade.enters = 0)
             /\ facade.enters > 0 =>
                   UNCHANGED <<vector_points, coordinate_map,
                               dimensional_spaces, coordinate_mappings,
                               metadata>>
             /\ cache' = cache
       /\ (ops' = ops + 1 /\ last'.op = "__exit__") =>
             /\ facade'.save_attempts = facade.save_attempts + 1
             /\ cache' = << >>
             /\ last'.propagated = ~last'.saved
             /\ last'.saved =>
                   disk' = save_database(serialize_database(Db),
                                         stamp_metadata(metadata, Db))
             /\ ~last'.saved => disk' = disk]_vars

\* the facade was entered twice and has loaded once, and the exit after
\* that, whose save raised, has left the cache empty and passed the
\* exception on
C24_Witness ==
    /\ last.op = "__exit__"
    /\ last.propagated
    /\ facade.enters = 2
    /\ facade.loads = 1
    /\ facade.save_attempts = 1
    /\ cache = << >>

\* ------------------------------------------------ mappings and interners
\* C31: in every reachable state the dimensions that have an interner are
\* the dimensions that have a coordinate mapping, every value-id stored in
\* a mapping is a key of the forward table of its dimension, and so no
\* mapping entry resolves to None.
C31_ReferentialIntegrity ==
    /\ DOMAIN dimensional_spaces = DOMAIN coordinate_mappings
    /\ \A n \in DOMAIN coordinate_mappings :
          \A c \in DOMAIN coordinate_mappings[n] :
             /\ n \in DOMAIN dimensional_spaces
             /\ coordinate_mappings[n][c]
                   \in DOMAIN dimensional_spaces[n].value_domain
             /\ get_value(dimensional_spaces[n], coordinate_mappings[n][c]) # None

\* ------------------------------------------------- the asynchronous wrappers
\* async_insert(vector_value, {}) hands self.insert to a thread of the
\* default executor; VectorDB holds no lock, so the statements of
\* add_vector_point run by two executor threads interleave.  The attribute
\* loop of insert has nothing to do for {} and the position is None.
AsyncInsert(t, value) ==
    /\ Called
    /\ workers[t].pc = "idle"
    /\ workers' = [workers EXCEPT ![t] = [pc |-> "in_map", value |-> value,
                                          coordinate |-> 0, fresh |-> FALSE]]
    /\ pure' = NotPure
    /\ UNCHANGED <<axisVars, dbVars, disk, procs, file_lock, async_lock,
                   metadata, rlock, threads, facade, last>>

workerFrame == UNCHANGED <<dbVars, disk, procs, file_lock, async_lock,
                           metadata, rlock, threads, facade, last, ops, pure>>

\* if value in self.coordinate_map: return self.coordinate_map[value]
InMap(t) ==
    /\ workers[t].pc = "in_map"
    /\ workers' = [workers EXCEPT ![t] =
          IF workers[t].value \in DOMAIN coordinate_map
          THEN [@ EXCEPT !.pc = "return",
                         !.coordinate = coordinate_map[workers[t].value]]
          ELSE [@ EXCEPT !.pc = "len", !.fresh = TRUE]]
    /\ UNCHANGED axisVars
    /\ workerFrame

\* coordinate = len(self.vector_points)
TakeLen(t) ==
    /\ workers[t].pc = "len"
    /\ workers' = [workers EXCEPT ![t].pc = "append",
                                  ![t].coordinate = Len(vector_points)]
    /\ UNCHANGED axisVars
    /\ workerFrame

\* self.vector_points.append(value)
AppendPoint(t) ==
    /\ workers[t].pc = "append"
    /\ vector_points' = Append(vector_points, workers[t].value)
    /\ workers' = [workers EXCEPT ![t].pc = "index"]
    /\ UNCHANGED coordinate_map
    /\ workerFrame

\* self.coordinate_map[value] = coordinate
SetIndex(t) ==
    /\ workers[t].pc = "index"
    /\ coordinate_map' =
          [v \in DOMAIN coordinate_map \cup {workers[t].value} |->
              IF v = workers[t].value THEN workers[t].coordinate
              ELSE coordinate_map[v]]
    /\ workers' = [workers EXCEPT ![t].pc = "return"]
    /\ UNCHANGED vector_points
    /\ workerFrame

\* insert returns the coordinate and the awaiting coroutine receives it
AsyncReturn(t) ==
    /\ workers[t].pc = "return"
    /\ workers' = [workers EXCEPT ![t] = IdleWorker]
    /\ last' = [op |-> "async_insert", value |-> workers[t].value,
                ret |-> workers[t].coordinate, fresh |-> workers[t].fresh]
    /\ UNCHANGED <<axisVars, dbVars, disk, procs, file_lock, async_lock,
                   metadata, rlock, threads, facade, ops, pure>>

NextAsync ==
    \/ \E t \in DOMAIN workers, value \in RowIdentityArgs : AsyncInsert(t, value)
    \/ \E t \in DOMAIN workers : InMap(t)
    \/ \E t \in DOMAIN workers : TakeLen(t)
    \/ \E t \in DOMAIN workers : AppendPoint(t)
    \/ \E t \in DOMAIN workers : SetIndex(t)
    \/ \E t \in DOMAIN workers : AsyncReturn(t)

SpecAsync == Init /\ [][NextAsync]_vars

\* C32: whenever two async_insert calls of different identities, both new
\* when their thread looked them up, have both run to their return, the
\* coordinates they return differ, both identities are keys of the index,
\* and the index agrees with the slots (index[v] = i exactly when slot i
\* holds v).
C32_AsyncInsertsSerialize ==
    \A t \in DOMAIN workers, u \in DOMAIN workers :
       (/\ t # u
        /\ workers[t].pc = "return" /\ workers[u].pc = "return"
        /\ workers[t].fresh /\ workers[u].fresh
        /\ workers[t].value # workers[u].value)
       => /\ workers[t].coordinate # workers[u].coordinate
          /\ workers[t].value \in DOMAIN coordinate_map
          /\ workers[u].value \in DOMAIN coordinate_map
          /\ \A v \in DOMAIN coordinate_map :
                /\ coordinate_map[v] \in 0 .. Len(vector_points) - 1
                /\ vector_points[coordinate_map[v] + 1] = v
          /\ \A i \in 1 .. Len(vector_points) :
                /\ vector_points[i] \in DOMAIN coordinate_map
                /\ coordinate_map[vector_points[i]] = i - 1

\* ------------------------------------------------------ malformed records
MaxRecords == 3

\* records as tuples: (value, attributes), (value, attributes, position), and
\* tuples of one and of four components
PairArgs == [value : RowIdentityArgs, attributes : {[n \in {"e"} |-> "x"]}]
TripleArgs == [value : RowIdentityArgs, attributes : {EmptyMap},
               position : {<<0>>}]
MalformedArgs == {[value |-> "a"],
                  [value |-> "a", attributes |-> EmptyMap,
                   position |-> NoPosition, extra |-> None]}
TupleArgs == PairArgs \cup TripleArgs \cup MalformedArgs
TupleBatches == UNION {[1 .. n -> TupleArgs] : n \in 0 .. MaxRecords}

NextRecords ==
    \/ \E value \in RowIdentityArgs : Lookup(value, "e")
    \/ \E records \in TupleBatches : BatchInsert(records)

SpecRecords == Init /\ [][NextRecords]_vars

Malformed(records) ==
    {i \in 1 .. Len(records) : RecordLen(records[i]) \notin {2, 3}}

\* insert of each record, one call after the other
RECURSIVE InsertEach(_, _)
InsertEach(db, records) ==
    IF records = << >> THEN db
    ELSE LET record == Head(records)
             r == insert(db, record.value, record.attributes,
                         IF "position" \in DOMAIN record THEN record.position
                         ELSE NoPosition)
         IN InsertEach(DbOf(r), Tail(records))

\* C33: batch_insert raises exactly when one of its records has neither two
\* nor three components; it then leaves the axis, the interners and the
\* mappings as the inserts of the records before the first such record
\* leave them (those records are inserted, no later record is applied), and
\* it leaves the cache empty.
C33_BatchStopsAtMalformedRecord ==
    [][(ops' = ops + 1 /\ last'.op = "batch_insert") =>
          LET records == last'.batch
              bad == Malformed(records)
          IN /\ last'.raised = (bad # {})
             /\ bad # {} =>
                   LET k == CHOOSE i \in bad : \A j \in bad : i <= j
                       before == InsertEach(Db, SubSeq(records, 1, k - 1))
                   IN /\ vector_points' = before.points
                      /\ coordinate_map' = before.map
                      /\ dimensional_spaces' = before.spaces
                      /\ coordinate_mappings' = before.mappings
                      /\ cache' = << >>]_vars

\* a batch of three records has raised at its second record: the identity of
\* the first record is on the axis with its attribute, the identity of the
\* third is not, and the cache is empty
C33_Witness ==
    /\ last.op = "batch_insert"
    /\ last.raised
    /\ Len(last.batch) = MaxRecords
    /\ Malformed(last.batch) = {2}
    /\ last.batch[1].value \in DOMAIN coordinate_map
    /\ Resolve(coordinate_map, dimensional_spaces, coordinate_mappings,
               last.batch[1].value, "e") = "x"
    /\ last.batch[3].value \notin DOMAIN coordinate_map
    /\ cache = << >>

\* ------------------------------------------------- re-insert after removal
\* C34: an insert of an identity that directly follows its removal returns a
\* coordinate that no slot of the axis had before (so neither its old one nor
\* any other ever assigned), leaves every tombstone of the axis a tombstone,
\* registers the identity at the returned coordinate, and lookup of the
\* identity in every dimension the insert did not supply is None.
C34_ReinsertIsFresh ==
    [][(/\ ops' = ops + 1
        /\ last.op = "remove" /\ last.ret = TRUE
        /\ last'.op = "insert"
        /\ last'.value = last.value) =>
          /\ last'.ret >= Len(vector_points)
          /\ \A i \in 1 .. Len(vector_points) :
                vector_points[i] = None =>
                   /\ i <= Len(vector_points')
                   /\ vector_points'[i] = None
          /\ last'.value \in DOMAIN coordinate_map'
          /\ \A n \in Dimensions \ DOMAIN last'.attributes :
                lookup(cache', coordinate_map', dimensional_spaces',
                       coordinate_mappings', last'.value, n) = None]_vars
====
